---- MODULE Spec2Model ----
(***************************************************************************)
(* parse.py: process_asm, tokenize, process_tokens, handle_mnemonic and    *)
(* process_operand as a state machine.  Strings are sequences of           *)
(* one-character strings, so that tokenize, the label pattern and the      *)
(* substring tests are computed character by character as the code does.   *)
(* The markup string is tracked by the pieces of it the grouping logic     *)
(* writes: the group divs opened, the group-close markers written and the  *)
(* asm-no numbers written.                                                 *)
(***************************************************************************)
EXTENDS Integers, Sequences, FiniteSets, TLC

VARIABLES pc, runs, i, line, block_is_open, colors, blocknum, asmline,
          opened, closed, emitted, g_fcn, g_fnc, ref

vars == <<pc, runs, i, line, block_is_open, colors, blocknum, asmline,
          opened, closed, emitted, g_fcn, g_fnc, ref>>

\* ---- bounds -------------------------------------------------------------
MaxLines == 4
MaxRuns == 2
MaxSrcLine == 2
MaxColorLines == 6
MaxColorRuns == 1
MaxColorSrcLine == 6

\* ---- module constants ---------------------------------------------------
ncolors == 5

sizes == ("q" :> 8) @@ ("l" :> 4) @@ ("w" :> 2) @@ ("b" :> 1)

whitelist_no_globl ==
  { <<".","s","e","c","t","i","o","n">>,
    <<".","b","y","t","e">>, <<".","w","o","r","d">>,
    <<".","l","o","n","g">>, <<".","q","u","a","d">>,
    <<".","t","y","p","e">>, <<".","a","s","c","i","z">>,
    <<".","a","s","c","i","i">>, <<".","s","t","r","i","n","g">>,
    <<".","s","k","i","p">> }

whitelist ==
  { <<".","s","e","c","t","i","o","n">>, <<".","g","l","o","b","l">>,
    <<".","b","y","t","e">>, <<".","w","o","r","d">>,
    <<".","l","o","n","g">>, <<".","q","u","a","d">>,
    <<".","t","y","p","e">>, <<".","a","s","c","i","z">>,
    <<".","a","s","c","i","i">>, <<".","s","t","r","i","n","g">>,
    <<".","s","k","i","p">> }

\* The alternatives of the badlabel pattern.  The pattern's leading '.' is
\* the regular-expression wildcard; it is written "ANY" here.
badlabel ==
  { <<"ANY","L","F">>, <<"ANY","L","t","e","m","p">>,
    <<"ANY","L","t","m","p">>, <<"ANY","L","t","e","x","t">>,
    <<"ANY","L","V","L">>, <<"ANY","L","f","u","n","c">>,
    <<"ANY","L","e","t","e","x","t">> }

\* The reference table loaded from ref.json: the base mnemonics and their
\* operand-size lists (0 = unsized slot).
Mov == <<"m","o","v">>
RefLoaded == (Mov :> <<0, 0>>)

\* Values of an attribute of the context object g that are not strings.
Absent == <<"<absent>">>
None == <<"<None>">>

\* ---- string helpers -----------------------------------------------------
Whitespace == {" ", "\t", "\n"}

startswith(s, p) == Len(s) >= Len(p) /\ SubSeq(s, 1, Len(p)) = p

endswith(s, p) == Len(s) >= Len(p) /\ SubSeq(s, Len(s) - Len(p) + 1, Len(s)) = p

\* p in s, for strings
contains(s, p) == \E k \in 0..(Len(s) - Len(p)) : SubSeq(s, k + 1, k + Len(p)) = p

RECURSIVE replace(_, _, _)
replace(s, c, r) ==
  IF s = <<>> THEN <<>>
  ELSE (IF Head(s) = c THEN r ELSE <<Head(s)>>) \o replace(Tail(s), c, r)

RECURSIVE lstrip(_, _)
lstrip(s, cs) == IF s # <<>> /\ Head(s) \in cs THEN lstrip(Tail(s), cs) ELSE s

RECURSIVE rstrip(_, _)
rstrip(s, cs) ==
  IF s # <<>> /\ s[Len(s)] \in cs THEN rstrip(SubSeq(s, 1, Len(s) - 1), cs) ELSE s

strip(s, cs) == rstrip(lstrip(s, cs), cs)

\* index of the first character of s in cs, 0 when there is none
RECURSIVE find(_, _, _)
find(s, cs, k) ==
  IF k > Len(s) THEN 0 ELSE IF s[k] \in cs THEN k ELSE find(s, cs, k + 1)

\* str.split(sep) for a one-character separator: the pieces between
\* separators, empty pieces included
RECURSIVE split_on(_, _)
split_on(s, c) ==
  LET p == find(s, {c}, 1)
  IN IF p = 0 THEN <<s>>
     ELSE <<SubSeq(s, 1, p - 1)>> \o split_on(SubSeq(s, p + 1, Len(s)), c)

\* re.split(r'[\s,]+', s): the pieces between maximal runs of separators,
\* empty pieces at either end included
RECURSIVE re_split(_, _)
re_split(s, cs) ==
  LET p == find(s, cs, 1)
  IN IF p = 0 THEN <<s>>
     ELSE <<SubSeq(s, 1, p - 1)>>
          \o re_split(lstrip(SubSeq(s, p + 1, Len(s)), cs), cs)

\* str.split(): the non-empty pieces between runs of whitespace
RECURSIVE ws_split(_)
ws_split(s) ==
  LET t == lstrip(s, Whitespace)
      p == find(t, Whitespace, 1)
  IN IF t = <<>> THEN <<>>
     ELSE IF p = 0 THEN <<t>>
     ELSE <<SubSeq(t, 1, p - 1)>> \o ws_split(SubSeq(t, p + 1, Len(t)))

DigitVal == ("0" :> 0) @@ ("1" :> 1) @@ ("2" :> 2) @@ ("3" :> 3) @@ ("4" :> 4)
            @@ ("5" :> 5) @@ ("6" :> 6) @@ ("7" :> 7) @@ ("8" :> 8) @@ ("9" :> 9)

\* int(s) for a string of decimal digits
RECURSIVE int(_)
int(s) ==
  IF Len(s) = 1 THEN DigitVal[s[1]]
  ELSE 10 * int(SubSeq(s, 1, Len(s) - 1)) + DigitVal[s[Len(s)]]

\* ---- tokenize -----------------------------------------------------------
RECURSIVE quote_bits(_, _)
quote_bits(bits, k) ==
  IF k > Len(bits) THEN <<>>
  ELSE (IF (k - 1) % 2 = 0 THEN ws_split(bits[k])
        ELSE << <<"\"">> \o bits[k] \o <<"\"">> >>)
       \o quote_bits(bits, k + 1)

tokenize(l) ==
  LET nocomment == split_on(l, "#")[1]
      stripped == strip(nocomment, Whitespace)
  IN IF find(stripped, {"\""}, 1) = 0
     THEN re_split(stripped, Whitespace \cup {","})
     ELSE quote_bits(split_on(stripped, "\""), 1)

\* the two replace calls at the top of the loop body
escape(l) ==
  replace(replace(replace(l, "<", <<"&","l","t",";">>),
                  ">", <<"&","g","t",";">>),
          "\t", <<" "," "," "," ">>)

\* ---- classification of a tokenized line ---------------------------------
LocTok == <<".","l","o","c">>
DebugMark == <<".","d","e","b","u","g">>
FunctionTok == <<"@","f","u","n","c","t","i","o","n">>
RepTok == <<"r","e","p">>

is_blank_never(tokens) == FALSE

\* not tokens[0]
is_blank(tokens) == tokens[1] = <<>>

\* badlabel.match(tok): some alternative matches at the start of tok
badlabel_match(tok) ==
  \E p \in badlabel :
     /\ Len(tok) >= Len(p)
     /\ \A j \in 1..Len(p) : IF p[j] = "ANY" THEN tok[j] # "\n" ELSE tok[j] = p[j]

\* the directive test that ends in `continue`
directive_dropped(tokens) ==
  /\ startswith(tokens[1], <<".">>)
  /\ ~endswith(tokens[1], <<":">>)
  /\ tokens[1] \notin whitelist

\* the label test that ends in `continue`
label_dropped(tokens) == endswith(tokens[1], <<":">>) /\ badlabel_match(tokens[1])

debug_marker_first(tokens) == contains(tokens[1], DebugMark)

\* len(tokens) > 1 and '.debug' in tokens[1]
debug_marker(tokens) == Len(tokens) > 1 /\ contains(tokens[2], DebugMark)

\* '@function' in tokens
has_function(tokens) == \E k \in 1..Len(tokens) : tokens[k] = FunctionTok

\* ---- colour assignment --------------------------------------------------
next_color_zero(n) == n % ncolors

next_color(n) == (n % ncolors) + 1

assign_color_always(cmap, cline, n) ==
  (cline :> next_color(n)) @@ cmap

\* colors after the `if cline not in colors` statement
assign_color(cmap, cline, n) ==
  IF cline \in DOMAIN cmap THEN cmap ELSE cmap @@ (cline :> next_color(n))

\* ---- handle_mnemonic ----------------------------------------------------
resize(szlist, sz) == [k \in 1..Len(szlist) |-> IF szlist[k] = 0 THEN sz ELSE szlist[k]]

\* the reference table after handle_mnemonic(token, cl)
handle_mnemonic(r, token) ==
  LET base == SubSeq(token, 1, Len(token) - 1)
      suffix == token[Len(token)]
  IN IF token \in DOMAIN r THEN r
     ELSE IF base \in DOMAIN r
          THEN IF suffix \notin DOMAIN sizes THEN r
               ELSE [r EXCEPT ![base] = resize(r[base], sizes[suffix])]
          ELSE r

\* ---- process_tokens -----------------------------------------------------
\* tokens after the `rep` merge at the top of process_tokens
rep_merged(tokens) ==
  IF tokens[1] = RepTok
  THEN <<tokens[1] \o <<" ">> \o tokens[2]>> \o SubSeq(tokens, 3, Len(tokens))
  ELSE tokens

is_mnemonic_line(tokens) ==
  /\ ~endswith(rep_merged(tokens)[1], <<":">>)
  /\ ~startswith(rep_merged(tokens)[1], <<".">>)

\* the reference table after process_tokens(tokens)
process_tokens_ref(r, tokens) ==
  IF is_mnemonic_line(tokens) THEN handle_mnemonic(r, rep_merged(tokens)[1]) ELSE r

\* process_operand reads g.fcn for every operand of a mnemonic line; reading
\* an attribute that was never set on g raises AttributeError
process_tokens_raises(tokens, fcn) ==
  /\ is_mnemonic_line(tokens)
  /\ Len(rep_merged(tokens)) > 1
  /\ fcn = Absent

\* ---- inputs -------------------------------------------------------------
DigitChar == <<"1","2","3","4","5","6","7","8","9">>

LocLine(n) == <<".","l","o","c"," ","1"," ">> \o <<DigitChar[n]>> \o <<" ","0">>

L_blank == <<>>
L_globl == <<".","g","l","o","b","l"," ","m","a","i","n">>
L_section == <<".","s","e","c","t","i","o","n"," ",".","t","e","x","t">>
L_section_debug == <<".","s","e","c","t","i","o","n","\t",".","d","e","b","u","g","_","s","t","r">>
L_file_debug == <<".","f","i","l","e"," ","\"","a",".","d","e","b","u","g","\"">>
L_LFB0 == <<".","L","F","B","0",":">>
L_main == <<"m","a","i","n",":">>
L_ALF == <<"A","L","F",":">>
L_type == <<".","t","y","p","e"," ","f",","," ","@","f","u","n","c","t","i","o","n">>
L_movl == <<"\t","m","o","v","l"," ","a",","," ","b">>
L_movq == <<"m","o","v","q"," ","a",","," ","b"," ","#"," ","c">>
L_ret == <<"r","e","t">>

Lines ==
  { L_blank, L_globl, L_section, L_section_debug, L_file_debug, L_LFB0,
    L_main, L_ALF, L_type, L_movl, L_movq, L_ret }
  \cup { LocLine(n) : n \in 1..MaxSrcLine }

\* the lines of a listing that exercises the colour assignment
ColorLines == { L_main, L_ret } \cup { LocLine(n) : n \in 1..MaxColorSrcLine }

\* ---- the state machine --------------------------------------------------
Init ==
  /\ pc = "idle"
  /\ runs = 0
  /\ i = 0
  /\ line = <<>>
  /\ block_is_open = FALSE
  /\ colors = [l \in {} |-> 0]
  /\ blocknum = 0
  /\ asmline = 0
  /\ opened = 0
  /\ closed = 0
  /\ emitted = <<>>
  /\ g_fcn = Absent
  /\ g_fnc = Absent
  /\ ref = RefLoaded

\* process_asm is called: the statements before the loop
StartRun(max) ==
  /\ pc \in {"idle", "returned", "raised"}
  /\ runs < max
  /\ runs' = runs + 1
  /\ pc' = "loop"
  /\ i' = 0
  /\ line' = <<>>
  /\ opened' = 1
  /\ closed' = 0
  /\ emitted' = <<>>
  /\ block_is_open' = TRUE
  /\ colors' = [l \in {} |-> 0]
  /\ blocknum' = 0
  /\ asmline' = 0
  /\ g_fnc' = None
  /\ UNCHANGED <<g_fcn, ref>>

\* one iteration of the loop body on the next input line
ProcessLine(raw, max) ==
  /\ pc = "loop"
  /\ i < max
  /\ i' = i + 1
  /\ line' = escape(raw)
  /\ UNCHANGED <<runs, g_fnc>>
  /\ LET tokens == tokenize(escape(raw))
         cline == int(tokens[3])
         \* the directive branch
         closeD == startswith(tokens[1], <<".">>) /\ block_is_open
         openD == block_is_open /\ ~closeD
         closedD == closed + (IF closeD THEN 1 ELSE 0)
         \* the label branch
         closeL == endswith(tokens[1], <<":">>) /\ openD
         openL == openD /\ ~closeL
         closedL == closedD + (IF closeL THEN 1 ELSE 0)
         fcn == IF has_function(tokens) THEN strip(tokens[2], {",", " "}) ELSE g_fcn
     IN IF is_blank(tokens)
        THEN UNCHANGED <<pc, block_is_open, colors, blocknum, asmline, opened,
                         closed, emitted, g_fcn, ref>>
        ELSE IF tokens[1] = LocTok
        THEN /\ colors' = assign_color(colors, cline, blocknum)
             /\ blocknum' = IF cline \in DOMAIN colors THEN blocknum ELSE blocknum + 1
             /\ closed' = closed + (IF block_is_open THEN 1 ELSE 0)
             /\ opened' = opened + 1
             /\ block_is_open' = TRUE
             /\ UNCHANGED <<pc, asmline, emitted, g_fcn, ref>>
        ELSE IF directive_dropped(tokens)
        THEN UNCHANGED <<pc, block_is_open, colors, blocknum, asmline, opened,
                         closed, emitted, g_fcn, ref>>
        ELSE IF label_dropped(tokens)
        THEN /\ block_is_open' = openD
             /\ closed' = closedD
             /\ UNCHANGED <<pc, colors, blocknum, asmline, opened, emitted,
                            g_fcn, ref>>
        ELSE IF debug_marker(tokens)
        THEN \* break, then the statements after the loop
             /\ block_is_open' = openL
             /\ closed' = closedL + 1
             /\ pc' = "returned"
             /\ UNCHANGED <<colors, blocknum, asmline, opened, emitted,
                            g_fcn, ref>>
        ELSE /\ block_is_open' = openL
             /\ closed' = closedL
             /\ g_fcn' = fcn
             /\ asmline' = asmline + 1
             /\ emitted' = Append(emitted, asmline + 1)
             /\ ref' = process_tokens_ref(ref, tokens)
             /\ pc' = IF process_tokens_raises(tokens, fcn) THEN "raised" ELSE "loop"
             /\ UNCHANGED <<colors, blocknum, opened>>

\* the input is exhausted: the statements after the loop
EndOfInput ==
  /\ pc = "loop"
  /\ closed' = closed + 1
  /\ pc' = "returned"
  /\ UNCHANGED <<runs, i, line, block_is_open, colors, blocknum, asmline,
                 opened, emitted, g_fcn, g_fnc, ref>>

Next ==
  \/ StartRun(MaxRuns)
  \/ \E raw \in Lines : ProcessLine(raw, MaxLines)
  \/ EndOfInput

Spec == Init /\ [][Next]_vars

NextColors ==
  \/ StartRun(MaxColorRuns)
  \/ \E raw \in ColorLines : ProcessLine(raw, MaxColorLines)
  \/ EndOfInput

SpecColors == Init /\ [][NextColors]_vars

TypeOK ==
  /\ pc \in {"idle", "loop", "returned", "raised"}
  /\ block_is_open \in BOOLEAN

\* ---- properties ---------------------------------------------------------
\* this step consumed one input line (now held in line')
Processed == pc = "loop" /\ i' = i + 1

GloblTok == <<".","g","l","o","b","l">>
SectionTok == <<".","s","e","c","t","i","o","n">>
Colon == <<":">>
Dot == <<".">>

\* the compiler-internal label prefixes, read literally
InternalPrefixes ==
  { <<".","L","F">>, <<".","L","t","e","m","p">>, <<".","L","t","m","p">>,
    <<".","L","t","e","x","t">>, <<".","L","V","L">>,
    <<".","L","f","u","n","c">>, <<".","L","e","t","e","x","t">> }

HasInternalPrefix(tok) == \E p \in InternalPrefixes : startswith(tok, p)

\* a non-blank line whose second token contains the debug-info marker
MarkerLine(l) ==
  LET t == tokenize(l)
  IN t[1] # <<>> /\ Len(t) > 1 /\ contains(t[2], DebugMark)

\* a line the suppression policy drops: a non-whitelisted directive that
\* does not end in ':' (the .loc marker aside), or a suppressed label
PolicyDropped(l) ==
  LET t == tokenize(l)
  IN \/ /\ startswith(t[1], Dot) /\ ~endswith(t[1], Colon)
        /\ t[1] \notin whitelist /\ t[1] # LocTok
     \/ endswith(t[1], Colon) /\ HasInternalPrefix(t[1])

\* C1: the k-th distinct source line number first seen in a .loc line gets
\* colour ((k-1) mod ncolors) + 1: a step adds at most the .loc line's own
\* number to the colour map, and when k-1 numbers are already mapped the
\* new one gets ((k-1) mod ncolors) + 1; every colour lies in 1..ncolors.
C1_RoundRobin ==
  /\ [](\A L \in DOMAIN colors : colors[L] \in 1..ncolors)
  /\ [][Processed =>
          \A L \in DOMAIN colors' \ DOMAIN colors :
             /\ tokenize(line')[1] = LocTok
             /\ L = int(tokenize(line')[3])
             /\ colors'[L] = (((Cardinality(DOMAIN colors) + 1) - 1) % ncolors) + 1]_vars

C1_Witness ==
  /\ Cardinality(DOMAIN colors) > ncolors
  /\ \E L1, L2 \in DOMAIN colors : L1 # L2 /\ colors[L1] = 1 /\ colors[L2] = 1

\* C2: within one run an entry of the colour map is never changed or
\* removed by a later line, and a .loc for an already-mapped number opens
\* its group without advancing the round-robin cursor.
C2_StableColors ==
  [][pc = "loop" =>
       /\ \A L \in DOMAIN colors : L \in DOMAIN colors' /\ colors'[L] = colors[L]
       /\ (Processed /\ tokenize(line')[1] = LocTok
             /\ int(tokenize(line')[3]) \in DOMAIN colors)
          => (blocknum' = blocknum /\ opened' = opened + 1 /\ block_is_open')]_vars

\* a .loc line for an already-mapped number has just been processed
C2_Witness ==
  /\ pc = "loop" /\ i > 0
  /\ tokenize(line)[1] = LocTok
  /\ opened - 1 > blocknum
  /\ blocknum > 1

\* C3: a mnemonic that is a base mnemonic of the reference table plus a
\* recognised size suffix uses the base entry's originally loaded size list
\* with every 0 slot replaced by the suffix's size, whatever was looked up
\* before.
C3_SuffixSizes ==
  (pc # "idle" /\ i > 0) =>
     LET t == tokenize(line)
         base == SubSeq(t[1], 1, Len(t[1]) - 1)
     IN (t[1] # <<>> /\ base \in DOMAIN RefLoaded /\ t[1][Len(t[1])] \in DOMAIN sizes)
        => ref[base] = resize(RefLoaded[base], sizes[t[1][Len(t[1])]])

\* C4 as claimed: every non-blank line whose second token contains the
\* debug-info marker ends the run and emits nothing, whatever its first
\* token is.
C4_AnyMarkerCutsOff ==
  [][(Processed /\ MarkerLine(line')) =>
        /\ pc' = "returned"
        /\ asmline' = asmline /\ emitted' = emitted
        /\ opened' = opened /\ colors' = colors]_vars

\* C4 amended: a marker line that is not a .loc line, not a dropped
\* directive and not a dropped label ends the run and emits nothing; once
\* the run has returned no line of it is processed.
C4_CutOff ==
  [][/\ (Processed /\ MarkerLine(line')
           /\ tokenize(line')[1] # LocTok
           /\ ~directive_dropped(tokenize(line'))
           /\ ~label_dropped(tokenize(line')))
        => /\ pc' = "returned"
           /\ asmline' = asmline /\ emitted' = emitted
           /\ opened' = opened /\ colors' = colors
     /\ pc = "returned" => (i' = 0 \/ i' = i)]_vars

\* the run was cut off by a marker line after a line had been emitted
C4_Witness ==
  /\ pc = "returned" /\ i > 1 /\ asmline > 0
  /\ MarkerLine(line)
  /\ tokenize(line)[1] = SectionTok

\* C5 as claimed: a .globl line produces no numbered line and a .section
\* line produces one.
C5_GloblSuppressed ==
  [][Processed =>
        /\ tokenize(line')[1] = GloblTok => asmline' = asmline
        /\ tokenize(line')[1] = SectionTok => asmline' = asmline + 1]_vars

\* C5 amended: a .globl line and a .section line are both kept: each is
\* emitted as the next numbered line, unless its second token contains the
\* debug-info marker, in which case it is dropped and ends the run.
C5_BothKept ==
  [][(Processed /\ tokenize(line')[1] \in {GloblTok, SectionTok}) =>
        IF MarkerLine(line')
        THEN asmline' = asmline /\ pc' = "returned"
        ELSE asmline' = asmline + 1 /\ emitted' = Append(emitted, asmline + 1)]_vars

\* a .globl line has been processed and numbered
C5_Witness ==
  /\ pc = "loop" /\ i > 0
  /\ tokenize(line)[1] = GloblTok
  /\ asmline > 0 /\ emitted # <<>>

\* C6: a label line is dropped exactly when the label begins with one of
\* the compiler-internal prefixes; every other label is numbered, and after
\* it no group is open.
C6_LabelPolicy ==
  [][(Processed /\ endswith(tokenize(line')[1], Colon)) =>
        /\ (asmline' = asmline) <=> HasInternalPrefix(tokenize(line')[1])
        /\ ~HasInternalPrefix(tokenize(line')[1]) => ~block_is_open']_vars

\* C7: group markers are balanced: never more close markers than groups
\* opened, and when the run has returned exactly as many.
C7_Balanced ==
  /\ closed <= opened
  /\ pc = "returned" => closed = opened

\* C8: a line dropped by the suppression policy leaves the grouping state,
\* the display line counter and the colour map unchanged and writes no
\* close marker.
C8_DroppedFrame ==
  [][(Processed /\ PolicyDropped(line')) =>
        /\ block_is_open' = block_is_open
        /\ closed' = closed /\ opened' = opened
        /\ asmline' = asmline
        /\ colors' = colors]_vars

\* C9: the numbers written for emitted lines are 1, 2, ..., n in order, each
\* emitted line getting the previous number plus one; blank lines, .loc
\* lines, suppressed directives and suppressed labels consume no number.
C9_Sequential ==
  /\ [](/\ Len(emitted) = asmline
        /\ \A k \in 1..Len(emitted) : emitted[k] = k)
  /\ [][Processed =>
          /\ emitted' \in {emitted, Append(emitted, Len(emitted) + 1)}
          /\ (\/ tokenize(line')[1] = <<>>
              \/ tokenize(line')[1] = LocTok
              \/ PolicyDropped(line'))
             => (asmline' = asmline /\ emitted' = emitted)]_vars

\* three lines are numbered and a later line consumed no number
C9_Witness ==
  /\ pc = "loop"
  /\ asmline = 3 /\ i > asmline
  /\ \/ tokenize(line)[1] = <<>>
     \/ PolicyDropped(line)

\* C10: when a call starts, no function name recorded by an earlier call is
\* active: the active function name has been reset.
C10_FcnScoped ==
  (pc = "loop" /\ i = 0) => g_fcn \in {None, Absent}
====
